---- MODULE Spec2Model ----
(***************************************************************************)
(* A model of the stundenplan24 timetable client.  The repository ships    *)
(* two variants of the library:                                            *)
(*   - src/pyvpmobil/__init__.py : SchoolTimetable and ClassTimetable      *)
(*   - src/pyVPMobil/__init__.py : School and the nested School.Class,     *)
(*     which reads the parsed tree from a module-level global.             *)
(* Both are modelled.  A constructor call is a sequence of steps (one per  *)
(* statement that matters), so that calls made by independent callers      *)
(* interleave.  Values produced by xmltodict are modelled as tagged        *)
(* records: an absent key, None (an empty element), a string, a list       *)
(* (a repeated element) or a dict (an element with children).              *)
(***************************************************************************)
EXTENDS Integers, Sequences, FiniteSets, TLC

VARIABLES inst, json_data, view, result

vars == <<inst, json_data, view, result>>

(***************************************************************************)
(* Bounds of the model.                                                    *)
(***************************************************************************)
MaxClasses == 2
MaxLessons == 2
MaxTokens == 2
MaxLines == 2

(***************************************************************************)
(* Strings are sequences of one-character strings.                         *)
(***************************************************************************)
UpperToLower ==
    ("A" :> "a") @@ ("B" :> "b") @@ ("M" :> "m") @@ ("R" :> "r") @@ ("T" :> "t")

LowerChar(c) == IF c \in DOMAIN UpperToLower THEN UpperToLower[c] ELSE c

\* str.lower()
Lower(s) == [i \in 1..Len(s) |-> LowerChar(s[i])]

\* sub in s
Contains(sub, s) ==
    \E i \in 0..(Len(s) - Len(sub)) : SubSeq(s, i + 1, i + Len(sub)) = sub

Digits == ("0" :> 0) @@ ("1" :> 1) @@ ("2" :> 2) @@ ("3" :> 3) @@ ("4" :> 4)
          @@ ("5" :> 5) @@ ("6" :> 6) @@ ("7" :> 7) @@ ("8" :> 8) @@ ("9" :> 9)

(***************************************************************************)
(* The values xmltodict produces, and what Python returns or raises.       *)
(***************************************************************************)
Absent == [k |-> "absent"]
None == [k |-> "none"]
S(s) == [k |-> "str", s |-> s]
L(items) == [k |-> "list", items |-> items]
D(f) == [k |-> "dict", f |-> f]
NoTags == [t \in {} |-> Absent]

Ok(v) == [ok |-> TRUE, v |-> v]
Raise(e) == [ok |-> FALSE, exc |-> e]

\* node[key]
GetItem(node, key) ==
    IF node.k = "dict"
    THEN IF key \in DOMAIN node.f THEN Ok(node.f[key]) ELSE Raise("KeyError")
    ELSE Raise("TypeError")

\* node.get(key, default)
Get(node, key, default) ==
    IF node.k = "dict"
    THEN IF key \in DOMAIN node.f THEN Ok(node.f[key]) ELSE Ok(default)
    ELSE Raise("AttributeError")

RECURSIVE SetToSeq(_)
SetToSeq(T) ==
    IF T = {} THEN <<>>
    ELSE LET t == CHOOSE u \in T : TRUE IN <<t>> \o SetToSeq(T \ {t})

\* for x in node: a list yields its items, a string its characters, a dict its
\* keys (strings); None is not iterable.
Iter(node) ==
    CASE node.k = "list" -> Ok(L(node.items))
      [] node.k = "str" -> Ok(L([i \in 1..Len(node.s) |-> S(<<node.s[i]>>)]))
      [] node.k = "dict" ->
            LET keys == SetToSeq(DOMAIN node.f)
            IN Ok(L([i \in 1..Len(keys) |-> S(<<keys[i]>>)]))
      [] OTHER -> Raise("TypeError")

\* [f(x) for x in xs], given the outcomes rs of f on each x: the first
\* exception ends the comprehension.
Collect(rs) ==
    IF \E i \in 1..Len(rs) : ~rs[i].ok
    THEN LET i == CHOOSE j \in 1..Len(rs) :
                    ~rs[j].ok /\ \A h \in 1..(j - 1) : rs[h].ok
         IN Raise(rs[i].exc)
    ELSE Ok(L([i \in 1..Len(rs) |-> rs[i].v]))

IsLeap(y) == (y % 4 = 0 /\ y % 100 # 0) \/ y % 400 = 0

DaysIn(y, m) ==
    CASE m \in {4, 6, 9, 11} -> 30
      [] m = 2 -> IF IsLeap(y) THEN 29 ELSE 28
      [] OTHER -> 31

\* datetime.strptime(token, "%y%m%d") on a token of six characters: two
\* digits each of year (00-68 -> 20xx, 69-99 -> 19xx), month and day.
Strptime(token) ==
    IF token.k # "str" THEN Raise("TypeError")
    ELSE IF Len(token.s) # 6 \/ \E i \in 1..6 : token.s[i] \notin DOMAIN Digits
    THEN Raise("ValueError")
    ELSE LET n(i) == 10 * Digits[token.s[i]] + Digits[token.s[i + 1]]
             y == IF n(1) <= 68 THEN 2000 + n(1) ELSE 1900 + n(1)
             m == n(3)
             d == n(5)
         IN IF m \in 1..12 /\ d >= 1 /\ d <= DaysIn(y, m)
            THEN Ok([k |-> "date", y |-> y, m |-> m, d |-> d])
            ELSE Raise("ValueError")

(***************************************************************************)
(* Constructor arguments.                                                  *)
(***************************************************************************)
PyInt(n) == [k |-> "int", n |-> n]
Date(y, m, d) == [k |-> "date", y |-> y, m |-> m, d |-> d]

\* isinstance(date, datetime) / isinstance(school_code, int)
IsDatetime(x) == x.k = "date"
IsInt(x) == x.k = "int"
\* not s, for a string s
Falsy(s) == s.k = "none" \/ (s.k = "str" /\ s.s = <<>>)

\* SchoolTimetable._validate_inputs
validate_inputs(date, school_code, username, password) ==
    IF ~IsDatetime(date) THEN Raise("ValueError")
    ELSE IF ~IsInt(school_code) \/ school_code.n <= 0 THEN Raise("ValueError")
    ELSE IF Falsy(username) \/ Falsy(password) THEN Raise("ValueError")
    ELSE Ok(None)

\* School.__init__, lines 9-10 up to the call of get(): the f-strings format
\* any username, password and school_code; date.strftime needs a datetime.
School_url(date, school_code, username, password) ==
    IF ~IsDatetime(date) THEN Raise("AttributeError") ELSE Ok(None)

(***************************************************************************)
(* The response body and its parse.                                        *)
(***************************************************************************)
Malformed == [k |-> "malformed"]

\* the check forgotten
HasMarker_ignored(body) == FALSE

\* "Seite nicht gefunden" in xml_data
HasMarker(body) == body.marker

\* xmltodict.parse(xml_data): the mapping of the root tag to its content
parse(body) ==
    IF body.xml.k = "malformed" THEN Raise("ExpatError") ELSE Ok(body.xml)

\* SchoolTimetable._parse_data, lines 111-115
parse_data(body) ==
    LET p == parse(body)
        r == IF p.ok THEN GetItem(p.v, "VpMobil") ELSE p
    IN IF r.ok THEN r ELSE Raise("VPMobilError")

\* School.__init__, line 16: parse(self.xml_data)["VpMobil"]
School_parse(body) ==
    LET p == parse(body)
    IN IF p.ok THEN GetItem(p.v, "VpMobil") ELSE p

(***************************************************************************)
(* Holidays and notices.                                                   *)
(***************************************************************************)
StrptimeAll(data) ==
    LET it == Iter(data)
    IN IF ~it.ok THEN it
       ELSE Collect([i \in 1..Len(it.v.items) |-> Strptime(it.v.items[i])])

\* SchoolTimetable._parse_off_days
parse_off_days(jd) ==
    LET r1 == Get(jd, "FreieTage", D(NoTags))
        r2 == IF r1.ok THEN Get(r1.v, "ft", L(<<>>)) ELSE r1
        r3 == IF ~r2.ok THEN r2
              ELSE StrptimeAll(IF r2.v.k = "str" THEN L(<<r2.v>>) ELSE r2.v)
    IN IF ~r3.ok /\ r3.exc \in {"KeyError", "ValueError"} THEN Ok(L(<<>>)) ELSE r3

\* School.__init__, line 18
School_off_days(jd) ==
    LET r1 == GetItem(jd, "FreieTage")
        r2 == IF r1.ok THEN GetItem(r1.v, "ft") ELSE r1
    IN IF r2.ok THEN StrptimeAll(r2.v) ELSE r2

RECURSIVE JoinLines(_)
\* "\n".join(items), all of them strings
JoinLines(items) ==
    IF Len(items) = 0 THEN <<>>
    ELSE IF Len(items) = 1 THEN items[1].s
    ELSE items[1].s \o <<"\n">> \o JoinLines(Tail(items))

Join(items) ==
    IF \E i \in 1..Len(items) : items[i].k # "str" THEN Raise("TypeError")
    ELSE Ok(S(JoinLines(items)))

\* SchoolTimetable._parse_extra_info
parse_extra_info(jd) ==
    LET r1 == GetItem(jd, "ZusatzInfo")
        r2 == IF r1.ok THEN GetItem(r1.v, "ZiZeile") ELSE r1
        r3 == IF ~r2.ok THEN r2
              ELSE IF r2.v.k = "list" THEN Join(r2.v.items) ELSE r2
    IN IF ~r3.ok /\ r3.exc = "KeyError" THEN Ok(None) ELSE r3

\* School.__init__, lines 20-24
School_extra_info(jd) ==
    LET r1 == GetItem(jd, "ZusatzInfo")
        r2 == IF r1.ok THEN GetItem(r1.v, "ZiZeile") ELSE r1
        it == IF r2.ok THEN Iter(r2.v) ELSE r2
        r3 == IF it.ok THEN Join(it.v.items) ELSE it
    IN IF ~r3.ok /\ r3.exc = "KeyError" THEN Ok(None) ELSE r3

(***************************************************************************)
(* Class lookup and the class view.                                        *)
(***************************************************************************)
\* the requested name compared as typed
normalize_class_name_as_typed(class_name) == class_name

\* ClassTimetable.__init__, line 191
normalize_class_name(class_name) == Lower(class_name)

\* the scan without its early return: the last match stays
find_loop_last(items, i, cn) ==
    LET hit(j) == LET kz == GetItem(items[j], "Kurz")
                  IN kz.ok /\ kz.v.k = "str" /\ Lower(kz.v.s) = cn
        hits == {j \in i..Len(items) : hit(j)}
    IN IF hits = {} THEN Raise("InvalidClassName")
       ELSE Ok(items[CHOOSE j \in hits : \A h \in hits : h <= j])

RECURSIVE find_loop(_, _, _)
\* ClassTimetable._find_class_data, lines 199-204
find_loop(items, i, cn) ==
    IF i > Len(items) THEN Raise("InvalidClassName")
    ELSE LET kz == GetItem(items[i], "Kurz")
         IN IF ~kz.ok THEN kz
            ELSE IF kz.v.k # "str" THEN Raise("AttributeError")
            ELSE IF Lower(kz.v.s) = cn THEN Ok(items[i])
            ELSE find_loop(items, i + 1, cn)

\* ClassTimetable._find_class_data
find_class_data(jd, cn) ==
    LET r1 == GetItem(jd, "Klassen")
        r2 == IF r1.ok THEN GetItem(r1.v, "Kl") ELSE r1
        it == IF r2.ok THEN Iter(r2.v) ELSE r2
        r3 == IF it.ok THEN find_loop(it.v.items, 1, cn) ELSE it
    IN IF ~r3.ok /\ r3.exc = "KeyError" THEN Raise("VPMobilError") ELSE r3

\* lesson.get(tag, "")
lesson_field(lesson, tag) == Get(lesson, tag, S(<<>>))

\* ClassTimetable._parse_timetable, lines 218-226
make_lesson(lesson) ==
    IF lesson.k # "dict" THEN Raise("AttributeError")
    ELSE Ok([k |-> "lesson",
             period |-> lesson_field(lesson, "St").v,
             start_time |-> lesson_field(lesson, "Beginn").v,
             end_time |-> lesson_field(lesson, "Ende").v,
             subject |-> lesson_field(lesson, "Fa").v,
             teacher |-> lesson_field(lesson, "Le").v,
             classroom |-> lesson_field(lesson, "Ra").v,
             info |-> lesson_field(lesson, "If").v])

\* isinstance(lessons, list) or else [lessons]
as_lesson_list(std) == IF std.k # "list" THEN <<std>> ELSE std.items

\* ClassTimetable._parse_timetable
parse_timetable(class_json) ==
    LET r1 == GetItem(class_json, "Pl")
        r2 == IF r1.ok THEN GetItem(r1.v, "Std") ELSE r1
        r3 == IF ~r2.ok THEN r2
              ELSE LET ls == as_lesson_list(r2.v)
                   IN Collect([i \in 1..Len(ls) |-> make_lesson(ls[i])])
    IN IF ~r3.ok /\ r3.exc \in {"KeyError", "TypeError"}
       THEN Raise("VPMobilError") ELSE r3

\* ClassTimetable.__init__
ClassTimetable(class_name, jd) ==
    LET cn == normalize_class_name(class_name)
        cj == find_class_data(jd, cn)
        tt == IF cj.ok THEN parse_timetable(cj.v) ELSE cj
    IN IF tt.ok
       THEN Ok([k |-> "view", class_name |-> cn, timetable |-> tt.v.items])
       ELSE tt

\* SchoolTimetable.get_available_classes
get_available_classes(jd) ==
    LET r1 == Get(jd, "Klassen", D(NoTags))
        r2 == IF r1.ok THEN Get(r1.v, "Kl", L(<<>>)) ELSE r1
        it == IF r2.ok THEN Iter(r2.v) ELSE r2
        r3 == IF ~it.ok THEN it
              ELSE Collect([i \in 1..Len(it.v.items) |->
                                GetItem(it.v.items[i], "Kurz")])
    IN IF ~r3.ok /\ r3.exc \in {"KeyError", "TypeError"} THEN Ok(L(<<>>)) ELSE r3

\* ClassTimetable.get_lessons_by_period
get_lessons_by_period(timetable, period) ==
    LET same(lesson) == lesson.period = S(period)
    IN Ok(L(SelectSeq(timetable, same)))

\* ClassTimetable.get_lessons_by_subject
get_lessons_by_subject(timetable, subject) ==
    IF \E i \in 1..Len(timetable) : timetable[i].subject.k # "str"
    THEN Raise("AttributeError")
    ELSE LET has(lesson) == Contains(Lower(subject), Lower(lesson.subject.s))
         IN Ok(L(SelectSeq(timetable, has)))

RECURSIVE School_find_loop(_, _, _)
\* School.Class.__init__, lines 30-34
School_find_loop(items, i, cn) ==
    IF i > Len(items) THEN Raise("InvalidClassName")
    ELSE LET kz == GetItem(items[i], "Kurz")
         IN IF ~kz.ok THEN kz
            ELSE IF kz.v = S(cn) THEN Ok(items[i])
            ELSE School_find_loop(items, i + 1, cn)

\* School.Class.__init__, line 39, one lesson
School_make_lesson(lesson) ==
    LET tags == <<"St", "Beginn", "Ende", "Fa", "Le", "Ra", "If">>
        rs == [i \in 1..7 |-> GetItem(lesson, tags[i])]
        all == Collect(rs)
    IN IF ~all.ok THEN all
       ELSE Ok([k |-> "lesson",
                count |-> rs[1].v, begin |-> rs[2].v, end |-> rs[3].v,
                subject |-> rs[4].v, teacher |-> rs[5].v,
                classroom |-> rs[6].v, info |-> rs[7].v])

\* School.Class.__init__, line 39
School_timetable(class_json) ==
    LET p1 == GetItem(class_json, "Pl")
        p2 == IF p1.ok THEN GetItem(p1.v, "Std") ELSE p1
        li == IF p2.ok THEN Iter(p2.v) ELSE p2
    IN IF ~li.ok THEN li
       ELSE Collect([i \in 1..Len(li.v.items) |-> School_make_lesson(li.v.items[i])])

\* School.Class.__init__, reading the module-level json_data
School_Class(class_name, g) ==
    IF g.k = "absent" THEN Raise("NameError")
    ELSE
    LET r1 == GetItem(g, "Klassen")
        r2 == IF r1.ok THEN GetItem(r1.v, "Kl") ELSE r1
        it == IF r2.ok THEN Iter(r2.v) ELSE r2
        cj == IF it.ok THEN School_find_loop(it.v.items, 1, Lower(class_name)) ELSE it
        tt == IF cj.ok THEN School_timetable(cj.v) ELSE cj
    IN IF tt.ok THEN Ok([k |-> "view", timetable |-> tt.v.items]) ELSE tt

(***************************************************************************)
(* Inputs: constructor arguments, server responses and documents.          *)
(***************************************************************************)
DocIds == {"A", "B"}

SeqsOf(T, lo, hi) == UNION {[1..n -> T] : n \in lo..hi}

\* a dict of the tags whose value is not Absent
MkDict(f) == D([t \in {u \in DOMAIN f : f[u] # Absent} |-> f[t]])

GoodArgs(d) ==
    [date |-> IF d = "A" THEN Date(2024, 1, 15) ELSE Date(2024, 1, 16),
     school_code |-> PyInt(10001234),
     username |-> S(<<"u">>),
     password |-> S(<<"p">>)]

\* the valid arguments of d, and each way of getting one argument wrong
ArgSets(d) ==
    {GoodArgs(d)}
    \cup {[GoodArgs(d) EXCEPT !.date = S(<<"2", "4", "1", "3", "4", "5">>)]}
    \cup {[GoodArgs(d) EXCEPT !.school_code = c] :
            c \in {PyInt(0), PyInt(-1), S(<<"7">>)}}
    \cup {[GoodArgs(d) EXCEPT !.username = S(<<>>)]}
    \cup {[GoodArgs(d) EXCEPT !.password = S(<<>>)]}

ArgsValid(args) ==
    /\ IsDatetime(args.date)
    /\ IsInt(args.school_code) /\ args.school_code.n > 0
    /\ ~Falsy(args.username) /\ ~Falsy(args.password)

C7a == <<"7", "a">>
C7A == <<"7", "A">>
C7b == <<"7", "b">>
C7B == <<"7", "B">>
Mat == <<"M", "a", "t">>
Art == <<"A", "r", "t">>

Tags == {"St", "Beginn", "Ende", "Fa", "Le", "Ra", "If"}

BaseLesson(st, fa) ==
    ("St" :> S(<<st>>)) @@ ("Beginn" :> S(<<"8">>)) @@ ("Ende" :> S(<<"9">>))
    @@ ("Fa" :> S(fa)) @@ ("Le" :> S(<<"T">>)) @@ ("Ra" :> S(<<"R">>))
    @@ ("If" :> S(<<"t">>))

LessonMat == D(BaseLesson("1", Mat))
LessonArt == D(BaseLesson("2", Art))

\* lesson nodes: complete ones, ones with a tag missing or empty, and an
\* empty <Std/>
LessonNodes ==
    {LessonMat, LessonArt, D(BaseLesson("1", Art))}
    \cup {MkDict([BaseLesson("1", Mat) EXCEPT ![t] = Absent]) : t \in {"St", "Fa"}}
    \cup {D([BaseLesson("2", Art) EXCEPT ![t] = None]) : t \in {"St", "Fa", "If"}}
    \cup {None}

PlOf(std) == D("Std" :> std)

RichPl ==
    {Absent, None, D(NoTags)}
    \cup {PlOf(l) : l \in LessonNodes}
    \cup {PlOf(L(ls)) : ls \in SeqsOf(LessonNodes, 2, MaxLessons)}

LightPl == {PlOf(LessonMat), PlOf(L(<<LessonArt, LessonMat>>))}

ClassNode(kurz, pl) == MkDict(("Kurz" :> kurz) @@ ("Pl" :> pl))

KurzVals == {Absent, None, S(C7a), S(C7A), S(C7b)}

LightClassNodes ==
    {ClassNode(kz, pl) : kz \in KurzVals, pl \in LightPl} \cup {None}

TokenNodes ==
    {S(<<"2", "4", "0", "1", "0", "1">>), S(<<"9", "9", "1", "2", "3", "1">>),
     S(<<"2", "4", "0", "2", "2", "9">>), S(<<"2", "3", "0", "2", "2", "9">>),
     S(<<"b", "a", "d">>), None}

FreieTageVals ==
    {Absent, None, D(NoTags)}
    \cup {D("ft" :> t) : t \in TokenNodes}
    \cup {D("ft" :> L(ts)) : ts \in SeqsOf(TokenNodes, 2, MaxTokens)}

LineNodes == {S(<<"h", "i">>), S(<<"o", "k">>), None}

ZusatzInfoVals ==
    {Absent, None, D(NoTags)}
    \cup {D("ZiZeile" :> l) : l \in LineNodes}
    \cup {D("ZiZeile" :> L(ls)) : ls \in SeqsOf(LineNodes, 2, MaxLines)}

KlassenVals ==
    {Absent, None, D(NoTags)}
    \cup {D("Kl" :> c) : c \in LightClassNodes}
    \cup {D("Kl" :> L(cs)) : cs \in SeqsOf(LightClassNodes, 2, MaxClasses)}

LessonKlassenVals ==
    {D("Kl" :> L(<<ClassNode(S(C7a), pl), ClassNode(S(C7b), PlOf(LessonMat))>>)) :
        pl \in RichPl}

Tree(ft, zi, kl) ==
    MkDict(("FreieTage" :> ft) @@ ("ZusatzInfo" :> zi) @@ ("Klassen" :> kl))

PlX == PlOf(L(<<LessonMat, LessonArt>>))
PlY == PlOf(L(<<LessonArt, LessonMat>>))
KlassenX == D("Kl" :> L(<<ClassNode(S(C7a), PlX), ClassNode(S(C7b), PlY)>>))
KlassenY == D("Kl" :> L(<<ClassNode(S(C7a), PlY), ClassNode(S(C7b), PlX)>>))
FreieTageX == D("ft" :> L(<<S(<<"2", "4", "0", "1", "0", "1">>),
                            S(<<"2", "4", "1", "2", "2", "4">>)>>))
ZusatzInfoX == D("ZiZeile" :> S(<<"h", "i">>))

\* two complete documents, as two dates of one school would give
SmallTrees ==
    {Tree(FreieTageX, ZusatzInfoX, KlassenX), Tree(FreieTageX, ZusatzInfoX, KlassenY)}

\* documents that vary one section at a time
RichTrees ==
    {Tree(ft, ZusatzInfoX, KlassenX) : ft \in FreieTageVals}
    \cup {Tree(FreieTageX, zi, KlassenX) : zi \in ZusatzInfoVals}
    \cup {Tree(FreieTageX, ZusatzInfoX, kl) : kl \in KlassenVals \cup LessonKlassenVals}

ErrorPage == [marker |-> TRUE, xml |-> D("html" :> None)]

Bodies(trees) ==
    {[marker |-> m, xml |-> x] :
        m \in BOOLEAN,
        x \in {Malformed, D("html" :> None), D("VpMobil" :> None)}
              \cup {D("VpMobil" :> t) : t \in trees}}

\* what requests.get meets: no connection, an HTTP error status with the
\* server's error page, or a 2xx response with a body
Responses(trees) ==
    {[k |-> "conn_error"], [k |-> "http", ok |-> FALSE, body |-> ErrorPage]}
    \cup {[k |-> "http", ok |-> TRUE, body |-> b] : b \in Bodies(trees)}

Queries == {C7a, C7A, C7b, C7B}
Subjects == {<<"m", "a">>, <<"A", "R", "T">>, <<"t">>, <<>>, <<"b">>}
Periods == {<<"1">>, <<"2">>, <<>>}

(***************************************************************************)
(* State.  inst[d] is one constructor call and the object it builds;       *)
(* json_data is the module-level global of src/pyVPMobil; view[d] is the   *)
(* last class lookup made on d and result[d] the last query made on d or   *)
(* on that view.                                                           *)
(***************************************************************************)
NoArgs == [date |-> Absent, school_code |-> Absent, username |-> Absent,
           password |-> Absent]

Idle ==
    [variant |-> "none", pc |-> "idle", args |-> NoArgs, fetched |-> FALSE,
     parsed |-> FALSE, xml_data |-> Absent, json_data |-> Absent,
     off_days |-> Absent, extra_info |-> Absent, exc |-> "", at |-> ""]

NoCall == [k |-> "none"]

Init ==
    /\ inst = [d \in DocIds |-> Idle]
    /\ json_data = Absent
    /\ view = [d \in DocIds |-> NoCall]
    /\ result = [d \in DocIds |-> NoCall]

Fail(d, e) ==
    inst' = [inst EXCEPT ![d].exc = e, ![d].at = inst[d].pc, ![d].pc = "failed"]

At(d, variant, pc) == inst[d].variant = variant /\ inst[d].pc = pc

(***************************************************************************)
(* SchoolTimetable.__init__, statement by statement.                       *)
(***************************************************************************)
\* line 60: self._validate_inputs(...); lines 62-64 keep the arguments
SchoolTimetable_init(d, argsets) ==
    /\ inst[d].pc = "idle"
    /\ \E a \in argsets :
         LET r == validate_inputs(a.date, a.school_code, a.username, a.password)
         IN inst' = [inst EXCEPT ![d] =
                [Idle EXCEPT !.variant = "new", !.args = a,
                             !.pc = IF r.ok THEN "fetch" ELSE "failed",
                             !.exc = IF r.ok THEN "" ELSE r.exc,
                             !.at = IF r.ok THEN "" ELSE "validate"]]
    /\ UNCHANGED <<json_data, view, result>>

\* lines 89-99: requests.get, raise_for_status, response.text
fetch_data(d, responses) ==
    /\ At(d, "new", "fetch")
    /\ \E r \in responses :
         IF r.k = "conn_error" \/ ~r.ok
         THEN inst' = [inst EXCEPT ![d].fetched = TRUE, ![d].exc = "VPMobilError",
                                   ![d].at = "fetch", ![d].pc = "failed"]
         ELSE inst' = [inst EXCEPT ![d].fetched = TRUE, ![d].xml_data = r.body,
                                   ![d].pc = "check"]
    /\ UNCHANGED <<json_data, view, result>>

\* lines 102-107: the "Seite nicht gefunden" check
check_not_found(d) ==
    /\ At(d, "new", "check")
    /\ IF HasMarker(inst[d].xml_data)
       THEN Fail(d, "DataNotFoundError")
       ELSE inst' = [inst EXCEPT ![d].pc = "parse"]
    /\ UNCHANGED <<json_data, view, result>>

\* lines 111-115
parse_data_step(d) ==
    /\ At(d, "new", "parse")
    /\ LET r == parse_data(inst[d].xml_data)
       IN IF r.ok
          THEN inst' = [inst EXCEPT ![d].parsed = TRUE, ![d].json_data = r.v,
                                    ![d].pc = "off_days"]
          ELSE inst' = [inst EXCEPT ![d].parsed = TRUE, ![d].exc = r.exc,
                                    ![d].at = "parse", ![d].pc = "failed"]
    /\ UNCHANGED <<json_data, view, result>>

\* line 118
parse_off_days_step(d) ==
    /\ At(d, "new", "off_days")
    /\ LET r == parse_off_days(inst[d].json_data)
       IN IF r.ok
          THEN inst' = [inst EXCEPT ![d].off_days = r.v, ![d].pc = "extra_info"]
          ELSE Fail(d, r.exc)
    /\ UNCHANGED <<json_data, view, result>>

\* line 121
parse_extra_info_step(d) ==
    /\ At(d, "new", "extra_info")
    /\ LET r == parse_extra_info(inst[d].json_data)
       IN IF r.ok
          THEN inst' = [inst EXCEPT ![d].extra_info = r.v, ![d].pc = "done"]
          ELSE Fail(d, r.exc)
    /\ UNCHANGED <<json_data, view, result>>

(***************************************************************************)
(* School.__init__, statement by statement.                                *)
(***************************************************************************)
\* lines 9-10, up to the call of get()
School_init(d, argsets) ==
    /\ inst[d].pc = "idle"
    /\ \E a \in argsets :
         LET r == School_url(a.date, a.school_code, a.username, a.password)
         IN inst' = [inst EXCEPT ![d] =
                [Idle EXCEPT !.variant = "legacy", !.args = a,
                             !.pc = IF r.ok THEN "fetch" ELSE "failed",
                             !.exc = IF r.ok THEN "" ELSE r.exc,
                             !.at = IF r.ok THEN "" ELSE "url"]]
    /\ UNCHANGED <<json_data, view, result>>

\* line 10: get(...).text, whatever the status
School_get(d, responses) ==
    /\ At(d, "legacy", "fetch")
    /\ \E r \in responses :
         IF r.k = "conn_error"
         THEN inst' = [inst EXCEPT ![d].fetched = TRUE, ![d].exc = "ConnectionError",
                                   ![d].at = "fetch", ![d].pc = "failed"]
         ELSE inst' = [inst EXCEPT ![d].fetched = TRUE, ![d].xml_data = r.body,
                                   ![d].pc = "check"]
    /\ UNCHANGED <<json_data, view, result>>

\* lines 12-13
School_check_not_found(d) ==
    /\ At(d, "legacy", "check")
    /\ IF HasMarker(inst[d].xml_data)
       THEN Fail(d, "VPMobilError")
       ELSE inst' = [inst EXCEPT ![d].pc = "parse"]
    /\ UNCHANGED <<json_data, view, result>>

\* lines 15-16: global json_data; json_data = parse(self.xml_data)["VpMobil"]
School_parse_step(d) ==
    /\ At(d, "legacy", "parse")
    /\ LET r == School_parse(inst[d].xml_data)
       IN IF r.ok
          THEN /\ json_data' = r.v
               /\ inst' = [inst EXCEPT ![d].parsed = TRUE, ![d].pc = "store"]
          ELSE /\ json_data' = json_data
               /\ inst' = [inst EXCEPT ![d].parsed = TRUE, ![d].exc = r.exc,
                                       ![d].at = "parse", ![d].pc = "failed"]
    /\ UNCHANGED <<view, result>>

\* line 17: self.json_data = json_data
School_store_step(d) ==
    /\ At(d, "legacy", "store")
    /\ inst' = [inst EXCEPT ![d].json_data = json_data, ![d].pc = "off_days"]
    /\ UNCHANGED <<json_data, view, result>>

\* line 18
School_off_days_step(d) ==
    /\ At(d, "legacy", "off_days")
    /\ LET r == School_off_days(inst[d].json_data)
       IN IF r.ok
          THEN inst' = [inst EXCEPT ![d].off_days = r.v, ![d].pc = "extra_info"]
          ELSE Fail(d, r.exc)
    /\ UNCHANGED <<json_data, view, result>>

\* lines 20-24
School_extra_info_step(d) ==
    /\ At(d, "legacy", "extra_info")
    /\ LET r == School_extra_info(inst[d].json_data)
       IN IF r.ok
          THEN inst' = [inst EXCEPT ![d].extra_info = r.v, ![d].pc = "done"]
          ELSE Fail(d, r.exc)
    /\ UNCHANGED <<json_data, view, result>>

(***************************************************************************)
(* Calls on a constructed object.                                          *)
(***************************************************************************)
Lookup(query, out) == [k |-> "lookup", query |-> query, out |-> out]
Call(name, arg, out) == [k |-> "call", name |-> name, arg |-> arg, out |-> out]

\* SchoolTimetable.get_class_timetable
get_class_timetable(d, queries) ==
    /\ At(d, "new", "done")
    /\ \E c \in queries :
         view' = [view EXCEPT ![d] = Lookup(c, ClassTimetable(c, inst[d].json_data))]
    /\ result' = [result EXCEPT ![d] = NoCall]
    /\ UNCHANGED <<inst, json_data>>

\* School.Class(class_name), called through the object d
School_Class_call(d, queries) ==
    /\ At(d, "legacy", "done")
    /\ \E c \in queries :
         view' = [view EXCEPT ![d] = Lookup(c, School_Class(c, json_data))]
    /\ result' = [result EXCEPT ![d] = NoCall]
    /\ UNCHANGED <<inst, json_data>>

call_get_available_classes(d) ==
    /\ At(d, "new", "done")
    /\ result' = [result EXCEPT ![d] =
            Call("get_available_classes", <<>>, get_available_classes(inst[d].json_data))]
    /\ UNCHANGED <<inst, json_data, view>>

call_get_lessons_by_period(d, periods) ==
    /\ At(d, "new", "done")
    /\ view[d].k = "lookup" /\ view[d].out.ok
    /\ \E p \in periods :
         result' = [result EXCEPT ![d] =
            Call("get_lessons_by_period", p,
                 get_lessons_by_period(view[d].out.v.timetable, p))]
    /\ UNCHANGED <<inst, json_data, view>>

call_get_lessons_by_subject(d, subjects) ==
    /\ At(d, "new", "done")
    /\ view[d].k = "lookup" /\ view[d].out.ok
    /\ \E s \in subjects :
         result' = [result EXCEPT ![d] =
            Call("get_lessons_by_subject", s,
                 get_lessons_by_subject(view[d].out.v.timetable, s))]
    /\ UNCHANGED <<inst, json_data, view>>

(***************************************************************************)
(* Spec: two callers construct and look up concurrently.                   *)
(* SpecDoc: one caller, documents of every modelled shape, every query.    *)
(***************************************************************************)
Next ==
    \E d \in DocIds :
        \/ SchoolTimetable_init(d, ArgSets(d))
        \/ fetch_data(d, Responses(SmallTrees))
        \/ check_not_found(d)
        \/ parse_data_step(d)
        \/ parse_off_days_step(d)
        \/ parse_extra_info_step(d)
        \/ get_class_timetable(d, {C7a, C7b})
        \/ School_init(d, ArgSets(d))
        \/ School_get(d, Responses(SmallTrees))
        \/ School_check_not_found(d)
        \/ School_parse_step(d)
        \/ School_store_step(d)
        \/ School_off_days_step(d)
        \/ School_extra_info_step(d)
        \/ School_Class_call(d, {C7a, C7b})

Spec == Init /\ [][Next]_vars

NextDoc ==
    \/ SchoolTimetable_init("A", {GoodArgs("A")})
    \/ fetch_data("A", Responses(RichTrees))
    \/ check_not_found("A")
    \/ parse_data_step("A")
    \/ parse_off_days_step("A")
    \/ parse_extra_info_step("A")
    \/ get_class_timetable("A", Queries)
    \/ call_get_available_classes("A")
    \/ call_get_lessons_by_period("A", Periods)
    \/ call_get_lessons_by_subject("A", Subjects)
    \/ School_init("A", {GoodArgs("A")})
    \/ School_get("A", Responses(RichTrees))
    \/ School_check_not_found("A")
    \/ School_parse_step("A")
    \/ School_store_step("A")
    \/ School_off_days_step("A")
    \/ School_extra_info_step("A")
    \/ School_Class_call("A", Queries)

SpecDoc == Init /\ [][NextDoc]_vars

(***************************************************************************)
(* Properties.                                                             *)
(***************************************************************************)
Started(d) == inst[d].variant # "none"
Fetched(d) == "marker" \in DOMAIN inst[d].xml_data

\* what d's own response body parses to
OwnTree(d) == GetItem(parse(inst[d].xml_data).v, "VpMobil").v

LookupOn(variant, query, tree) ==
    IF variant = "new" THEN ClassTimetable(query, tree) ELSE School_Class(query, tree)

\* the tree a lookup on d reads
TreeRead(d) == IF inst[d].variant = "new" THEN inst[d].json_data ELSE json_data

HasTag(node, tag) == node.k = "dict" /\ tag \in DOMAIN node.f

\* the value of Klassen/Kl, Absent when there is none
KlOf(jd) ==
    IF HasTag(jd, "Klassen") /\ HasTag(jd.f["Klassen"], "Kl")
    THEN jd.f["Klassen"].f["Kl"] ELSE Absent

HasCode(node) == HasTag(node, "Kurz") /\ node.f["Kurz"].k = "str"

\* the entry a lookup of query returns once it has settled on a class node
ViewOf(variant, query, node) ==
    LET tt == IF variant = "new" THEN parse_timetable(node) ELSE School_timetable(node)
    IN IF ~tt.ok THEN tt
       ELSE IF variant = "new"
       THEN Ok([k |-> "view", class_name |-> Lower(query), timetable |-> tt.v.items])
       ELSE Ok([k |-> "view", timetable |-> tt.v.items])

Chars == DOMAIN UpperToLower \cup {UpperToLower[c] : c \in DOMAIN UpperToLower} \cup {"7"}

SameLetter(a, b) ==
    a = b \/ (a \in DOMAIN UpperToLower /\ UpperToLower[a] = b)
          \/ (b \in DOMAIN UpperToLower /\ UpperToLower[b] = a)

\* the spellings of a code that differ from it in letter case only
CaseVariants(code) ==
    {c \in [1..Len(code) -> Chars] : \A i \in 1..Len(code) : SameLetter(c[i], code[i])}

\* C1: a class lookup made on a document reads only that document's parsed
\* data: its outcome is the one the lookup has on the tree parsed from the
\* document's own response, whatever other documents were constructed.
C1_LookupReadsOwnDocument ==
    \A d \in DocIds :
        view[d].k = "lookup" =>
            view[d].out = LookupOn(inst[d].variant, view[d].query, OwnTree(d))

\* C2: a construction with an invalid argument never issues a network fetch
\* and never produces a document.
C2_InvalidArgumentsNeverFetch ==
    \A d \in DocIds :
        (Started(d) /\ ~ArgsValid(inst[d].args)) =>
            (~inst[d].fetched /\ inst[d].pc # "done")

\* C3: looking up a class code and looking up any case variant of it have
\* the same outcome: the same entry or the same error.
C3_LookupCaseInsensitive ==
    \A d \in DocIds :
        view[d].k = "lookup" =>
            \A c \in CaseVariants(view[d].query) :
                LookupOn(inst[d].variant, c, TreeRead(d)) = view[d].out

C3_Witness ==
    \E d \in DocIds :
        /\ inst[d].variant = "new"
        /\ view[d].k = "lookup" /\ view[d].out.ok
        /\ view[d].query = C7A
        /\ KlOf(inst[d].json_data).k = "list"
        /\ \E i \in 1..Len(KlOf(inst[d].json_data).items) :
               LET node == KlOf(inst[d].json_data).items[i]
               IN HasCode(node) /\ node.f["Kurz"] = S(C7a)

\* the holiday tokens of a document whose holiday list holds only strings
TokensOf(jd) ==
    LET ft == jd.f["FreieTage"].f["ft"]
    IN IF ft.k = "str" THEN <<ft>> ELSE ft.items

HasTokenList(jd) ==
    /\ HasTag(jd, "FreieTage") /\ HasTag(jd.f["FreieTage"], "ft")
    /\ LET ft == jd.f["FreieTage"].f["ft"]
       IN \/ ft.k = "str"
          \/ ft.k = "list" /\ \A i \in 1..Len(ft.items) : ft.items[i].k = "str"

\* the dates of the parsable tokens, in source order
ValidDates(tokens) ==
    LET good(t) == Strptime(t).ok
        kept == SelectSeq(tokens, good)
    IN [i \in 1..Len(kept) |-> Strptime(kept[i]).v]

\* C4: for a holiday list of valid and unparsable tokens construction does
\* not fail on the holidays, and off_days is exactly the dates of the valid
\* tokens in source order.
C4_UnparsableTokensDroppedIndividually ==
    \A d \in DocIds :
        (inst[d].json_data # Absent /\ HasTokenList(inst[d].json_data)) =>
            /\ ~(inst[d].pc = "failed" /\ inst[d].at = "off_days")
            /\ inst[d].off_days # Absent =>
                   inst[d].off_days = L(ValidDates(TokensOf(inst[d].json_data)))

\* a document with exactly one class node, which has a code and lessons
SingleClass(jd) ==
    LET kl == KlOf(jd)
    IN kl.k = "dict" /\ HasCode(kl) /\ HasTag(kl, "Pl") /\ kl.f["Pl"] \in LightPl

\* C5: a document with exactly one class lists that class as available, and
\* a lookup of its code returns its entry with its lessons.
C5_SingleClassIsListedAndFound ==
    \A d \in DocIds :
        (inst[d].variant = "new" /\ inst[d].pc = "done"
            /\ SingleClass(inst[d].json_data)) =>
            LET kl == KlOf(inst[d].json_data)
            IN /\ (result[d].k = "call" /\ result[d].name = "get_available_classes")
                      => result[d].out = Ok(L(<<kl.f["Kurz"]>>))
               /\ (view[d].k = "lookup"
                      /\ Lower(view[d].query) = Lower(kl.f["Kurz"].s))
                      => view[d].out = ViewOf("new", view[d].query, kl)

\* the class nodes of a document whose class list is a sequence of nodes
\* that all carry a code
CodedClassList(jd) ==
    /\ KlOf(jd).k = "list"
    /\ \A i \in 1..Len(KlOf(jd).items) : HasCode(KlOf(jd).items[i])

\* the positions of the nodes whose code equals query case-insensitively
SameCode(jd, query) ==
    {i \in 1..Len(KlOf(jd).items) :
        Lower(KlOf(jd).items[i].f["Kurz"].s) = Lower(query)}

\* the positions of the nodes the lookup's comparison accepts
Accepted(variant, jd, query) ==
    IF variant = "new" THEN SameCode(jd, query)
    ELSE {i \in 1..Len(KlOf(jd).items) :
            KlOf(jd).items[i].f["Kurz"].s = Lower(query)}

Duplicated(d) ==
    /\ Started(d)
    /\ view[d].k = "lookup"
    /\ TreeRead(d) # Absent
    /\ CodedClassList(TreeRead(d))
    /\ Cardinality(SameCode(TreeRead(d), view[d].query)) >= 2

\* C6 as stated: with two or more class nodes of the looked-up code, the
\* lookup returns the entry of the last of them in source order.
C6_DuplicateCodesLastWins ==
    \A d \in DocIds :
        Duplicated(d) =>
            LET jd == TreeRead(d)
                same == SameCode(jd, view[d].query)
                last == CHOOSE i \in same : \A j \in same : j <= i
            IN view[d].out = ViewOf(inst[d].variant, view[d].query, KlOf(jd).items[last])

\* C6 as amended: with two or more class nodes of the looked-up code, the
\* lookup resolves to the first node in source order that its comparison
\* accepts (SchoolTimetable: the code equal case-insensitively; School.Class:
\* the stored code equal to the lower-cased query) and returns that node's
\* entry, or the error its lesson list raises; it raises the unknown-class
\* error when it accepts none.
C6_DuplicateCodesFirstWins ==
    \A d \in DocIds :
        Duplicated(d) =>
            LET jd == TreeRead(d)
                acc == Accepted(inst[d].variant, jd, view[d].query)
                first == CHOOSE i \in acc : \A j \in acc : i <= j
            IN view[d].out =
                  IF acc = {} THEN Raise("InvalidClassName")
                  ELSE ViewOf(inst[d].variant, view[d].query, KlOf(jd).items[first])

C6_Witness ==
    \E d \in DocIds :
        /\ inst[d].variant = "new"
        /\ Duplicated(d)
        /\ view[d].out.ok
        /\ LET items == KlOf(TreeRead(d)).items
           IN items[1].f["Pl"] # items[2].f["Pl"]
              /\ {1, 2} \subseteq SameCode(TreeRead(d), view[d].query)

LessonFields(lesson) == DOMAIN lesson \ {"k"}

\* C7: every field of every lesson of a built view is a string, and the
\* period and subject queries on a built view never fail.
C7_LessonFieldsAreStrings ==
    \A d \in DocIds :
        /\ (view[d].k = "lookup" /\ view[d].out.ok) =>
               \A i \in 1..Len(view[d].out.v.timetable) :
                   \A fld \in LessonFields(view[d].out.v.timetable[i]) :
                       view[d].out.v.timetable[i][fld].k = "str"
        /\ (result[d].k = "call" /\ result[d].name # "get_available_classes") =>
               result[d].out.ok

NotFoundError(variant) ==
    IF variant = "new" THEN "DataNotFoundError" ELSE "VPMobilError"

\* C8: once a response body with the "page not found" marker is fetched,
\* the construction can only wait for the marker check or have failed at it
\* with the not-found error (DataNotFoundError in SchoolTimetable, the
\* VPMobilError of School): the parse is never reached and no document,
\* tree or holiday list is produced.
C8_MarkerEndsInDataNotFound ==
    \A d \in DocIds :
        (Fetched(d) /\ inst[d].xml_data.marker) =>
            /\ inst[d].pc \in {"check", "failed"}
            /\ inst[d].pc = "failed" =>
                   (inst[d].at = "check" /\ inst[d].exc = NotFoundError(inst[d].variant))
            /\ ~inst[d].parsed
            /\ inst[d].json_data = Absent
            /\ inst[d].off_days = Absent
            /\ view[d] = NoCall

C8_Witness ==
    \E d, e \in DocIds :
        /\ inst[d].variant = "new" /\ inst[e].variant = "legacy"
        /\ \A x \in {d, e} :
               /\ Fetched(x) /\ inst[x].xml_data.marker
               /\ inst[x].xml_data.xml # Malformed
               /\ inst[x].pc = "failed"
        /\ inst[d].exc = "DataNotFoundError"

\* a class node of the document lacks its code
MissingCode(jd) ==
    LET kl == KlOf(jd)
    IN \/ kl.k = "dict" /\ ~HasTag(kl, "Kurz")
       \/ kl.k = "list" /\ \E i \in 1..Len(kl.items) :
              kl.items[i].k = "dict" /\ ~HasTag(kl.items[i], "Kurz")

\* C9: a parsed body without the root tag ends the construction with the
\* shape error, and a document with a class node that lacks its code is
\* never produced.
C9_MissingStructuralTagRejected ==
    \A d \in DocIds :
        inst[d].variant = "new" =>
            /\ (inst[d].parsed /\ inst[d].xml_data.xml.k = "dict"
                    /\ ~HasTag(inst[d].xml_data.xml, "VpMobil")) =>
                   (inst[d].pc = "failed" /\ inst[d].exc = "VPMobilError")
            /\ inst[d].pc = "done" => ~MissingCode(inst[d].json_data)

\* the lessons whose subject contains s, compared case-insensitively
SubjectMatches(timetable, s) ==
    LET has(lesson) == /\ lesson.subject.k = "str"
                       /\ Contains(Lower(s), Lower(lesson.subject.s))
    IN SelectSeq(timetable, has)

\* C10: get_lessons_by_subject(s) returns exactly the lessons of the view
\* whose subject contains s case-insensitively, in source order.
C10_LessonsBySubjectExact ==
    \A d \in DocIds :
        (result[d].k = "call" /\ result[d].name = "get_lessons_by_subject") =>
            result[d].out = Ok(L(SubjectMatches(view[d].out.v.timetable, result[d].arg)))
====
